---- MODULE Spec2Model ----
(***************************************************************************)
(* Model of CheshireCat.__init__ (lines 53-56) and CheshireCat.embed_tools *)
(* (lines 220-262) of src/core/cat/looking_glass/cheshire_cat.py: the      *)
(* reconciliation of the "procedural" vector collection with the tools of  *)
(* the MadHatter plugin registry.                                          *)
(***************************************************************************)
EXTENDS Integers, Sequences, FiniteSets, TLC

\* ------------------------------------------------------------------ bounds
NumThreads == 2
MaxInitPoints == 1
MaxSyncs == 1

Threads == 1..NumThreads
\* the thread that constructs the CheshireCat singleton
Main == 1

\* ------------------------------------------------------------- data model
\* a tool of a plugin, as read by embed_tools: name, description, docstring
Tool(n, d, doc) == [name |-> n, description |-> d, docstring |-> doc]

\* the tools of the installed plugins, in the order the MadHatter lists
\* them; n1 and n2 share one description
PluginTools ==
    << Tool("n1", "toolA", "d1"), Tool("n2", "toolA", "d2"),
       Tool("n3", "toolB", "d3"), Tool("n4", "toolC", "d4") >>

Catalogue == { PluginTools[k] : k \in DOMAIN PluginTools }

SeqsUpTo(S, n) == UNION { [1..k -> S] : k \in 0..n }

\* mad_hatter.tools when the plugins of `active` are the active ones
RECURSIVE ToolsOf(_, _)
ToolsOf(active, k) ==
    IF k > Len(PluginTools) THEN << >>
    ELSE IF k \in active THEN << PluginTools[k] >> \o ToolsOf(active, k + 1)
         ELSE ToolsOf(active, k + 1)

\* the values mad_hatter.tools can take
Registries == { ToolsOf(A, 1) : A \in SUBSET (DOMAIN PluginTools) }

\* variant of lines 234-242 that embeds the name of the tool as the text
ToolPoint_NameAsText(id, tool) ==
    [id |-> id, page_content |-> tool.name, source |-> "tool",
     name |-> tool.name, docstring |-> tool.docstring]

\* the point add_texts stores for one tool (lines 234-242); `when` is a
\* wall-clock stamp that no line of embed_tools reads back
ToolPoint(id, tool) ==
    [id |-> id, page_content |-> tool.description, source |-> "tool",
     name |-> tool.name, docstring |-> tool.docstring]

\* the collections the store can hold when the Cat is constructed
InitCollections ==
    { [k \in DOMAIN s |-> ToolPoint(k, s[k])] :
        s \in SeqsUpTo(Catalogue, MaxInitPoints) }

\* ------------------------------------------- vector store (interface only)
get_all_points(collection) == collection

add_texts(collection, id, tool) == Append(collection, ToolPoint(id, tool))

delete(collection, ids) ==
    SelectSeq(collection, LAMBDA p : ~(\E k \in DOMAIN ids : ids[k] = p.id))

\* when a delete batch fails the store may have applied any part of it
PartialDeletes(collection, ids) ==
    { SelectSeq(collection, LAMBDA p : p.id \notin D) :
        D \in SUBSET { ids[k] : k \in DOMAIN ids } }

\* --------------------------------------------- embed_tools, pure fragments
\* python `x in list`
In(x, list) == \E k \in DOMAIN list : list[k] = x

\* line 226
EmbeddedToolsIds(embedded) == [k \in DOMAIN embedded |-> embedded[k].id]

\* line 227
EmbeddedToolsDescriptions(embedded) ==
    [k \in DOMAIN embedded |-> embedded[k].page_content]

\* variant of line 232 with the test inverted
NotEmbedded_Inverted(tool, embedded) ==
    In(tool.description, EmbeddedToolsDescriptions(embedded))

\* variant of line 232 that looks the tool up by its name
NotEmbedded_ByName(tool, embedded) ==
    ~In(tool.name, EmbeddedToolsDescriptions(embedded))

\* line 232: the test is against the descriptions fetched at line 223
NotEmbedded(tool, embedded) ==
    ~In(tool.description, EmbeddedToolsDescriptions(embedded))

\* variant of line 247 that collects the names of the tools
MadHatterToolsDescriptions_Names(ts) == [k \in DOMAIN ts |-> ts[k].name]

\* line 247
MadHatterToolsDescriptions(ts) == [k \in DOMAIN ts |-> ts[k].description]

\* variant of lines 250-255 with the test of line 253 inverted
RECURSIVE PointsToBeDeleted_Inverted(_, _, _)
PointsToBeDeleted_Inverted(ids, descrs, active) ==
    IF ids = << >> \/ descrs = << >> THEN << >>
    ELSE IF In(Head(descrs), active)
         THEN << Head(ids) >> \o PointsToBeDeleted_Inverted(Tail(ids), Tail(descrs), active)
         ELSE PointsToBeDeleted_Inverted(Tail(ids), Tail(descrs), active)

\* lines 250-255: zip of ids and descriptions, keeping the inactive ones
RECURSIVE PointsToBeDeleted(_, _, _)
PointsToBeDeleted(ids, descrs, active) ==
    IF ids = << >> \/ descrs = << >> THEN << >>
    ELSE IF ~In(Head(descrs), active)
         THEN << Head(ids) >> \o PointsToBeDeleted(Tail(ids), Tail(descrs), active)
         ELSE PointsToBeDeleted(Tail(ids), Tail(descrs), active)

\* variant of line 258 that needs more than one marked point
DeleteIsIssued_MoreThanOne(marked) == Len(marked) > 1

\* variant of line 258 that issues the call whatever was marked
DeleteIsIssued_Always(marked) == Len(marked) >= 0

\* line 258
DeleteIsIssued(marked) == Len(marked) > 0

\* ------------------------------------------------------------------ state
VARIABLES
    tools,                \* mad_hatter.tools
    callback,             \* mad_hatter.on_finish_plugins_sync_callback
    procedural,           \* the points of the "procedural" collection
    nextId,               \* the identifier the store assigns next
    boot,                 \* position of the main thread in __init__
    syncs,                \* plugin syncs performed so far
    pc,                   \* per thread: position in the sync / embed_tools
    embedded_tools,       \* per thread: local of embed_tools (line 223)
    tool_iter,            \* per thread: the list the for loop iterates
    idx,                  \* per thread: tools already visited by the loop
    mad_hatter_tools_descriptions, \* per thread: local (line 247)
    points_to_be_deleted, \* per thread: local of embed_tools (line 250)
    calls,                \* per thread: store calls issued by the pass
    pre,                  \* per thread: the last finished pass, at entry
    last                  \* the last finished pass

vars == << tools, callback, procedural, nextId, boot, syncs, pc,
           embedded_tools, tool_iter, idx, mad_hatter_tools_descriptions,
           points_to_be_deleted, calls, pre, last >>

locals == << embedded_tools, tool_iter, idx, mad_hatter_tools_descriptions,
            points_to_be_deleted >>

NoPass == [status |-> "none", tools |-> << >>, points |-> << >>]

InFlight(t) == pc[t] \in {"fetch", "loop", "scan", "delete"}

Resting(t) == pc[t] \in {"idle", "returned", "raised"}

Quiescent == \A t \in Threads : Resting(t)

Init ==
    /\ tools \in Registries
    /\ callback = "none"
    /\ procedural \in InitCollections
    /\ nextId = MaxInitPoints + 1
    /\ boot = "line55"
    /\ syncs = 0
    /\ pc = [t \in Threads |-> "idle"]
    /\ embedded_tools = [t \in Threads |-> << >>]
    /\ tool_iter = [t \in Threads |-> << >>]
    /\ idx = [t \in Threads |-> 0]
    /\ mad_hatter_tools_descriptions = [t \in Threads |-> << >>]
    /\ points_to_be_deleted = [t \in Threads |-> << >>]
    /\ calls = [t \in Threads |-> << >>]
    /\ pre = [t \in Threads |-> NoPass]
    /\ last = NoPass

\* entry into embed_tools: fresh locals
Enter(t) ==
    /\ pc' = [pc EXCEPT ![t] = "fetch"]
    /\ embedded_tools' = [embedded_tools EXCEPT ![t] = << >>]
    /\ tool_iter' = [tool_iter EXCEPT ![t] = << >>]
    /\ idx' = [idx EXCEPT ![t] = 0]
    /\ mad_hatter_tools_descriptions' =
            [mad_hatter_tools_descriptions EXCEPT ![t] = << >>]
    /\ points_to_be_deleted' = [points_to_be_deleted EXCEPT ![t] = << >>]
    /\ calls' = [calls EXCEPT ![t] = << >>]
    /\ pre' = [pre EXCEPT ![t] = last]

\* embed_tools leaves, normally or by an exception
Leave(t, status, points) ==
    /\ pc' = [pc EXCEPT ![t] = status]
    /\ last' = [status |-> status, tools |-> tools, points |-> points]

\* ------------------------------------------------------- __init__ (53-56)
\* variant of line 55 that leaves the callback of the MadHatter as it was
RegisterCallback_Forgotten ==
    /\ boot = "line55"
    /\ boot' = "line56"
    /\ UNCHANGED << tools, callback, procedural, nextId, syncs, pc, locals,
                    calls, pre, last >>

\* line 55
RegisterCallback ==
    /\ boot = "line55"
    /\ callback' = "embed_tools"
    /\ boot' = "line56"
    /\ UNCHANGED << tools, procedural, nextId, syncs, pc, locals, calls, pre, last >>

\* line 56
StartupEmbed ==
    /\ boot = "line56"
    /\ Resting(Main)
    /\ boot' = "line58"
    /\ Enter(Main)
    /\ UNCHANGED << tools, callback, procedural, nextId, syncs, last >>

\* ---------------------------------------------------- MadHatter (caller)
\* a plugin load / unload / reload rebuilds mad_hatter.tools
PluginSync(t, ts) ==
    /\ Resting(t)
    /\ t = Main => boot = "line58"
    /\ syncs < MaxSyncs
    /\ syncs' = syncs + 1
    /\ tools' = ts
    /\ pc' = [pc EXCEPT ![t] = "notify"]
    /\ UNCHANGED << callback, procedural, nextId, boot, locals, calls, pre, last >>

\* the sync ends by calling on_finish_plugins_sync_callback
NotifyCat(t) ==
    /\ pc[t] = "notify"
    /\ IF callback = "embed_tools"
       THEN Enter(t)
       ELSE /\ pc' = [pc EXCEPT ![t] = "idle"]
            /\ UNCHANGED << locals, calls, pre >>
    /\ UNCHANGED << tools, callback, procedural, nextId, boot, syncs, last >>

\* ------------------------------------------------- embed_tools (220-262)
\* lines 223-230: the fetch, and the loop takes mad_hatter.tools
Fetch(t) ==
    /\ pc[t] = "fetch"
    /\ embedded_tools' = [embedded_tools EXCEPT ![t] = get_all_points(procedural)]
    /\ tool_iter' = [tool_iter EXCEPT ![t] = tools]
    /\ calls' = [calls EXCEPT ![t] = Append(@, [op |-> "get_all_points", ok |-> TRUE])]
    /\ pc' = [pc EXCEPT ![t] = "loop"]
    /\ UNCHANGED << tools, callback, procedural, nextId, boot, syncs, idx,
                    mad_hatter_tools_descriptions, points_to_be_deleted,
                    pre, last >>

\* variant of line 223 in which the failure is swallowed and the pass goes
\* on with an empty list of embedded tools
FetchFails_Swallowed(t) ==
    /\ pc[t] = "fetch"
    /\ embedded_tools' = [embedded_tools EXCEPT ![t] = << >>]
    /\ tool_iter' = [tool_iter EXCEPT ![t] = tools]
    /\ calls' = [calls EXCEPT ![t] = Append(@, [op |-> "get_all_points", ok |-> FALSE])]
    /\ pc' = [pc EXCEPT ![t] = "loop"]
    /\ UNCHANGED << tools, callback, procedural, nextId, boot, syncs, idx,
                    mad_hatter_tools_descriptions, points_to_be_deleted,
                    pre, last >>

\* line 223 raises: nothing in embed_tools catches it
FetchFails(t) ==
    /\ pc[t] = "fetch"
    /\ calls' = [calls EXCEPT ![t] = Append(@, [op |-> "get_all_points", ok |-> FALSE])]
    /\ Leave(t, "raised", procedural)
    /\ UNCHANGED << tools, callback, procedural, nextId, boot, syncs, locals, pre >>

\* lines 230-232, condition false: the tool counts as embedded
SkipTool(t) ==
    /\ pc[t] = "loop"
    /\ idx[t] < Len(tool_iter[t])
    /\ ~NotEmbedded(tool_iter[t][idx[t] + 1], embedded_tools[t])
    /\ idx' = [idx EXCEPT ![t] = @ + 1]
    /\ UNCHANGED << tools, callback, procedural, nextId, boot, syncs, pc,
                    embedded_tools, tool_iter, mad_hatter_tools_descriptions,
                    points_to_be_deleted, calls, pre, last >>

\* lines 230-244, condition true: one add_texts call for the tool
InsertTool(t) ==
    /\ pc[t] = "loop"
    /\ idx[t] < Len(tool_iter[t])
    /\ LET tool == tool_iter[t][idx[t] + 1] IN
         /\ NotEmbedded(tool, embedded_tools[t])
         /\ procedural' = add_texts(procedural, nextId, tool)
         /\ calls' = [calls EXCEPT ![t] =
                Append(@, [op |-> "add_texts", ok |-> TRUE, tool |-> tool,
                           id |-> nextId])]
    /\ nextId' = nextId + 1
    /\ idx' = [idx EXCEPT ![t] = @ + 1]
    /\ UNCHANGED << tools, callback, boot, syncs, pc, embedded_tools,
                    tool_iter, mad_hatter_tools_descriptions,
                    points_to_be_deleted, pre, last >>

\* variant of lines 234-242 in which the failure is caught inside the loop,
\* which goes on with the next tool
InsertFails_Caught(t) ==
    /\ pc[t] = "loop"
    /\ idx[t] < Len(tool_iter[t])
    /\ LET tool == tool_iter[t][idx[t] + 1] IN
         /\ NotEmbedded(tool, embedded_tools[t])
         /\ calls' = [calls EXCEPT ![t] =
                Append(@, [op |-> "add_texts", ok |-> FALSE, tool |-> tool,
                           id |-> 0])]
    /\ idx' = [idx EXCEPT ![t] = @ + 1]
    /\ UNCHANGED << tools, callback, procedural, nextId, boot, syncs, pc,
                    embedded_tools, tool_iter, mad_hatter_tools_descriptions,
                    points_to_be_deleted, pre, last >>

\* line 234 raises: the exception leaves the loop and embed_tools
InsertFails(t) ==
    /\ pc[t] = "loop"
    /\ idx[t] < Len(tool_iter[t])
    /\ LET tool == tool_iter[t][idx[t] + 1] IN
         /\ NotEmbedded(tool, embedded_tools[t])
         /\ calls' = [calls EXCEPT ![t] =
                Append(@, [op |-> "add_texts", ok |-> FALSE, tool |-> tool,
                           id |-> 0])]
    /\ Leave(t, "raised", procedural)
    /\ UNCHANGED << tools, callback, procedural, nextId, boot, syncs, locals, pre >>

\* variant of lines 246-255 that also drops from mad_hatter.tools the tools
\* the fetched points do not cover
Scan_Prunes(t) ==
    /\ pc[t] = "loop"
    /\ idx[t] = Len(tool_iter[t])
    /\ tools' = SelectSeq(tools, LAMBDA tl : ~NotEmbedded(tl, embedded_tools[t]))
    /\ mad_hatter_tools_descriptions' = [mad_hatter_tools_descriptions EXCEPT ![t] =
            MadHatterToolsDescriptions(tools)]
    /\ points_to_be_deleted' = [points_to_be_deleted EXCEPT ![t] =
            PointsToBeDeleted(EmbeddedToolsIds(embedded_tools[t]),
                              EmbeddedToolsDescriptions(embedded_tools[t]),
                              mad_hatter_tools_descriptions'[t])]
    /\ pc' = [pc EXCEPT ![t] = "delete"]
    /\ UNCHANGED << callback, procedural, nextId, boot, syncs,
                    embedded_tools, tool_iter, idx, calls, pre, last >>

\* lines 246-255: mad_hatter.tools is read again, stale points are marked
Scan(t) ==
    /\ pc[t] = "loop"
    /\ idx[t] = Len(tool_iter[t])
    /\ mad_hatter_tools_descriptions' = [mad_hatter_tools_descriptions EXCEPT ![t] =
            MadHatterToolsDescriptions(tools)]
    /\ points_to_be_deleted' = [points_to_be_deleted EXCEPT ![t] =
            PointsToBeDeleted(EmbeddedToolsIds(embedded_tools[t]),
                              EmbeddedToolsDescriptions(embedded_tools[t]),
                              mad_hatter_tools_descriptions'[t])]
    /\ pc' = [pc EXCEPT ![t] = "delete"]
    /\ UNCHANGED << tools, callback, procedural, nextId, boot, syncs,
                    embedded_tools, tool_iter, idx, calls, pre, last >>

\* lines 258-262: one delete call with every marked identifier
DeleteBatch(t) ==
    /\ pc[t] = "delete"
    /\ DeleteIsIssued(points_to_be_deleted[t])
    /\ procedural' = delete(procedural, points_to_be_deleted[t])
    /\ calls' = [calls EXCEPT ![t] =
            Append(@, [op |-> "delete", ok |-> TRUE, ids |-> points_to_be_deleted[t]])]
    /\ Leave(t, "returned", procedural')
    /\ UNCHANGED << tools, callback, nextId, boot, syncs, locals, pre >>

\* line 259 raises: nothing in embed_tools catches it
DeleteFails(t) ==
    /\ pc[t] = "delete"
    /\ DeleteIsIssued(points_to_be_deleted[t])
    /\ procedural' \in PartialDeletes(procedural, points_to_be_deleted[t])
    /\ calls' = [calls EXCEPT ![t] =
            Append(@, [op |-> "delete", ok |-> FALSE, ids |-> points_to_be_deleted[t]])]
    /\ Leave(t, "raised", procedural')
    /\ UNCHANGED << tools, callback, nextId, boot, syncs, locals, pre >>

\* line 258, condition false: embed_tools returns without a delete call
NoDelete(t) ==
    /\ pc[t] = "delete"
    /\ ~DeleteIsIssued(points_to_be_deleted[t])
    /\ Leave(t, "returned", procedural)
    /\ UNCHANGED << tools, callback, procedural, nextId, boot, syncs, locals,
                    calls, pre >>

\* ---------------------------------------------------------- specifications
PassStep(t) ==
    \/ Fetch(t)
    \/ FetchFails(t)
    \/ SkipTool(t)
    \/ InsertTool(t)
    \/ InsertFails(t)
    \/ Scan(t)
    \/ DeleteBatch(t)
    \/ DeleteFails(t)
    \/ NoDelete(t)

\* one caller at a time: __init__ runs to its end, then plugin syncs run
\* one after the other, each with its callback
Next ==
    \/ RegisterCallback
    \/ Quiescent /\ StartupEmbed
    \/ \E ts \in Registries : Quiescent /\ PluginSync(Main, ts)
    \/ \E t \in Threads : NotifyCat(t)
    \/ \E t \in Threads : PassStep(t)

Spec == Init /\ [][Next]_vars

\* threads sync plugins, and so call embed_tools, with nothing between them
NextConc ==
    \/ RegisterCallback
    \/ StartupEmbed
    \/ \E t \in Threads, ts \in Registries : PluginSync(t, ts)
    \/ \E t \in Threads : NotifyCat(t)
    \/ \E t \in Threads : PassStep(t)

SpecConc == Init /\ [][NextConc]_vars

\* ------------------------------------------------------ claims: vocabulary
Range(s) == { s[k] : k \in DOMAIN s }

\* the descriptions a collection holds
Descriptions(collection) == { p.page_content : p \in Range(collection) }

\* the descriptions of the tools of a registry
ActiveDescriptions(ts) == { tl.description : tl \in Range(ts) }

\* the identifiers of the points of a collection that carry description d
IdsOf(collection, d) == { p.id : p \in { q \in Range(collection) : q.page_content = d } }

NoDuplicatePoint(collection) ==
    \A d \in Descriptions(collection) : Cardinality(IdsOf(collection, d)) = 1

\* the store calls of one kind a pass has issued
CallsOf(t, op) == { c \in Range(calls[t]) : c.op = op }

\* the descriptions a pass has inserted
Inserted(t) == { c.tool.description : c \in { x \in CallsOf(t, "add_texts") : x.ok } }

\* the identifiers a pass has asked the store to delete
Deleted(t) == UNION { Range(c.ids) : c \in CallsOf(t, "delete") }

\* the points of the fetched snapshot of a pass that no active tool describes
StaleIds(t) ==
    { p.id : p \in { q \in Range(embedded_tools[t]) :
                        q.page_content \notin ActiveDescriptions(tool_iter[t]) } }

\* a registry in which two tools share a description the snapshot lacks
DuplicateMissing(t, d) ==
    /\ d \notin Descriptions(embedded_tools[t])
    /\ \E a, b \in DOMAIN tool_iter[t] :
          a # b /\ tool_iter[t][a].description = d /\ tool_iter[t][b].description = d

\* ---------------------------------------------------------------- claims
\* C1 (as claimed): once a pass has completed with no store failure, the
\* descriptions stored are exactly the descriptions of the registry, and no
\* description is held by more than one point.
C1_Convergence ==
    \A t \in Threads :
        pc[t] = "returned" =>
            /\ Descriptions(procedural) = ActiveDescriptions(tool_iter[t])
            /\ NoDuplicatePoint(procedural)

\* C2 (as claimed): after startup, whenever no pass is in flight, no callback
\* is pending and the last pass ended without a failure, the descriptions
\* stored are exactly the active ones, one point each.
C2_QuiescentInvariant ==
    (Quiescent /\ boot = "line58" /\ last.status = "returned") =>
        /\ Descriptions(procedural) = ActiveDescriptions(tools)
        /\ NoDuplicatePoint(procedural)

\* C3: a pass that follows a completed pass over the same registry issues no
\* insert call and no delete call, and leaves the collection as that pass
\* left it.
C3_Idempotence ==
    \A t \in Threads :
        (/\ pc[t] = "returned"
         /\ pre[t].status = "returned"
         /\ pre[t].tools = tool_iter[t]) =>
            /\ CallsOf(t, "add_texts") = {}
            /\ CallsOf(t, "delete") = {}
            /\ procedural = pre[t].points

\* a second pass over an unchanged, non-empty registry has completed, the
\* first pass having left a non-empty collection
C3_Witness ==
    /\ pc[Main] = "returned"
    /\ pre[Main].status = "returned"
    /\ pre[Main].tools = tool_iter[Main]
    /\ Len(tool_iter[Main]) >= 2
    /\ pre[Main].points # << >>
    /\ syncs = 1

\* C4 (as claimed): a pass over a registry in which two tools share a
\* description that was not embedded ends with exactly one point for it,
\* created by exactly one insert.
C4_OnePointPerDescription ==
    \A t \in Threads : \A d \in ActiveDescriptions(tool_iter[t]) :
        (pc[t] = "returned" /\ DuplicateMissing(t, d)) =>
            /\ Cardinality(IdsOf(procedural, d)) = 1
            /\ Cardinality({ c \in CallsOf(t, "add_texts") : c.tool.description = d }) = 1

\* C5: when a pass has completed, the descriptions it inserted are those of
\* the registry that no fetched point carries, the identifiers it deleted are
\* those of the fetched points whose description is not in the registry, and
\* every fetched point with an active description is still stored and was
\* neither deleted nor inserted again.
C5_ExactDiff ==
    \A t \in Threads :
        pc[t] = "returned" =>
            /\ Inserted(t) =
                  ActiveDescriptions(tool_iter[t]) \ Descriptions(embedded_tools[t])
            /\ Deleted(t) = StaleIds(t)
            /\ \A p \in Range(embedded_tools[t]) :
                  p.page_content \in ActiveDescriptions(tool_iter[t]) =>
                      /\ p \in Range(procedural)
                      /\ p.id \notin Deleted(t)
                      /\ p.page_content \notin Inserted(t)

\* collection {toolA, toolB}, registry {toolB, toolC}: toolC was inserted,
\* the point of toolA deleted, the point of toolB kept
C5_Witness ==
    /\ pc[Main] = "returned"
    /\ Descriptions(embedded_tools[Main]) = {"toolA", "toolB"}
    /\ ActiveDescriptions(tool_iter[Main]) = {"toolB", "toolC"}
    /\ Inserted(Main) = {"toolC"}
    /\ Deleted(Main) = IdsOf(embedded_tools[Main], "toolA")
    /\ IdsOf(procedural, "toolB") = IdsOf(embedded_tools[Main], "toolB")

\* C6: a tool that was active at the previous pass and is active at this one
\* keeps every point stored for it: the point is never deleted nor inserted
\* again by this pass, and when both passes completed the identifiers stored
\* for its description are the same after the two passes.
C6_StableRetention ==
    \A t \in Threads :
        (pc[t] \in {"loop", "delete", "returned", "raised"}
            /\ pre[t].status # "none") =>
            \A tl \in Range(pre[t].tools) \cap Range(tool_iter[t]) :
                /\ \A p \in Range(pre[t].points) :
                      p.page_content = tl.description =>
                          /\ p \in Range(procedural)
                          /\ p.id \notin Deleted(t)
                /\ (pc[t] = "returned" /\ pre[t].status = "returned") =>
                      /\ IdsOf(procedural, tl.description)
                            = IdsOf(pre[t].points, tl.description)
                      /\ tl.description \notin Inserted(t)

\* a tool stayed active over two completed passes while another tool was
\* added and a third removed between them
C6_Witness ==
    /\ pc[Main] = "returned"
    /\ pre[Main].status = "returned"
    /\ Range(pre[Main].tools) \cap Range(tool_iter[Main]) # {}
    /\ Inserted(Main) # {}
    /\ Deleted(Main) # {}

\* C7: a completed pass over an empty registry that fetched a non-empty
\* collection issued no insert and one delete call naming every fetched
\* point, and the collection is empty.
C7_EmptyRegistryDrains ==
    \A t \in Threads :
        (pc[t] = "returned" /\ tool_iter[t] = << >> /\ embedded_tools[t] # << >>) =>
            /\ CallsOf(t, "add_texts") = {}
            /\ Len(calls[t]) = 2
            /\ calls[t][2].op = "delete"
            /\ Range(calls[t][2].ids) = { p.id : p \in Range(embedded_tools[t]) }
            /\ procedural = << >>

\* the registry went empty after a pass had stored points
C7_Witness ==
    /\ pc[Main] = "returned"
    /\ tool_iter[Main] = << >>
    /\ Len(embedded_tools[Main]) >= 2
    /\ procedural = << >>

\* C8 (as claimed): a pass in which an insert failed still runs to its end:
\* it returns, every other missing tool of the registry is stored, the
\* failed tool is not, and no stale point is left.
C8_PartialFailureResilience ==
    \A t \in Threads :
        \A c \in { x \in CallsOf(t, "add_texts") : ~x.ok } :
            Resting(t) =>
                /\ pc[t] = "returned"
                /\ \A tl \in Range(tool_iter[t]) :
                      tl.description # c.tool.description =>
                          tl.description \in Descriptions(procedural)
                /\ Descriptions(procedural) \subseteq ActiveDescriptions(tool_iter[t])

\* C9 (as claimed): at most one pass is in flight at any time.
C9_MutualExclusion ==
    Cardinality({ t \in Threads : InFlight(t) }) <= 1

\* C10: the calls of a pass are one fetch, then the inserts, then at most one
\* delete, which is the last call, carries every marked identifier and is
\* issued exactly when some identifier is marked.
C10_StepOrdering ==
    \A t \in Threads : \A k \in DOMAIN calls[t] :
        /\ calls[t][k].op = "get_all_points" <=> k = 1
        /\ calls[t][k].op = "delete" =>
              /\ k = Len(calls[t])
              /\ ~InFlight(t)
              /\ calls[t][k].ids # << >>
              /\ Range(calls[t][k].ids) = StaleIds(t)
        /\ (pc[t] = "returned" /\ k = Len(calls[t])) =>
              (calls[t][k].op = "delete" <=> StaleIds(t) # {})

\* a completed pass issued its fetch, two inserts and then one delete
C10_Witness ==
    /\ pc[Main] = "returned"
    /\ Len(calls[Main]) = 4
    /\ calls[Main][2].op = "add_texts"
    /\ calls[Main][3].op = "add_texts"
    /\ calls[Main][4].op = "delete"

\* C11: a pass whose fetch failed issued no other call and is over, and the
\* step in which the fetch fails leaves the collection and the identifier
\* counter of the store as they were.
C11_FetchFailureIsFatal ==
    [][\A t \in Threads :
          /\ (calls'[t] # << >> /\ ~calls'[t][1].ok) =>
                /\ Len(calls'[t]) = 1
                /\ pc'[t] \notin {"fetch", "loop", "scan", "delete", "returned"}
          /\ (pc[t] = "fetch" /\ calls'[t] # << >> /\ ~calls'[t][1].ok) =>
                /\ procedural' = procedural
                /\ nextId' = nextId]_vars

\* the fetch failed in a pass that had a tool to insert and a point to delete
C11_Witness ==
    /\ pc[Main] = "raised"
    /\ calls[Main] = << [op |-> "get_all_points", ok |-> FALSE] >>
    /\ ActiveDescriptions(tools) \ Descriptions(procedural) # {}
    /\ Descriptions(procedural) \ ActiveDescriptions(tools) # {}

\* C12 (as claimed): a pass whose delete call failed returns normally to its
\* caller, and the points it inserted are still stored.
C12_DeleteFailureIsRecovered ==
    \A t \in Threads :
        \A c \in { x \in CallsOf(t, "delete") : ~x.ok } :
            pc[t] \in {"returned", "raised"} =>
                /\ pc[t] = "returned"
                /\ Inserted(t) \subseteq Descriptions(procedural)

\* C13: a pass that completes after a pass that failed leaves the stored
\* descriptions equal to the descriptions of the registry.
C13_SelfHealing ==
    \A t \in Threads :
        (pc[t] = "returned" /\ pre[t].status = "raised") =>
            Descriptions(procedural) = ActiveDescriptions(tool_iter[t])

\* a failed pass left the collection different from the registry, and the
\* next pass, over the same registry, has completed with work to do
C13_Witness ==
    /\ pc[Main] = "returned"
    /\ pre[Main].status = "raised"
    /\ pre[Main].tools = tool_iter[Main]
    /\ Descriptions(pre[Main].points) # ActiveDescriptions(tool_iter[Main])
    /\ Inserted(Main) # {}
    /\ Deleted(Main) # {}

\* C14: when the fetched snapshot holds a point for a description that is no
\* longer active and the registry holds a description that is not embedded,
\* the collection holds a point for one of the two in every state of the
\* pass and after it.
C14_NoEmptyWindow ==
    \A t \in Threads :
        pc[t] \in {"loop", "delete", "returned", "raised"} =>
            \A old \in Descriptions(embedded_tools[t]) \ ActiveDescriptions(tool_iter[t]) :
                \A new \in ActiveDescriptions(tool_iter[t]) \ Descriptions(embedded_tools[t]) :
                    old \in Descriptions(procedural) \/ new \in Descriptions(procedural)

\* the insert of the new description failed and the point of the old one is
\* the only one stored
C14_Witness ==
    /\ pc[Main] = "raised"
    /\ Descriptions(embedded_tools[Main]) = {"toolB"}
    /\ ActiveDescriptions(tool_iter[Main]) = {"toolC"}
    /\ \E c \in CallsOf(Main, "add_texts") : ~c.ok
    /\ Descriptions(procedural) = {"toolB"}

\* the identifiers a pass obtained from its successful inserts of description d
InsertedIds(t, d) ==
    { c.id : c \in { x \in CallsOf(t, "add_texts") : x.ok /\ x.tool.description = d } }

\* C15: a pass that has finished its loop has inserted every description of
\* its registry that its own snapshot lacks, whatever other passes stored in
\* the meantime, so two passes whose snapshots both lack an active
\* description have created two distinct points for it; and a pass marks for
\* deletion no fetched point whose description it read as active.
C15_OverlapDoubleInsert ==
    \A t \in Threads :
        pc[t] \in {"delete", "returned"} =>
            /\ \A d \in ActiveDescriptions(tool_iter[t]) \ Descriptions(embedded_tools[t]) :
                  /\ InsertedIds(t, d) # {}
                  /\ \A u \in Threads \ {t} :
                        (/\ pc[u] \in {"delete", "returned"}
                         /\ d \in ActiveDescriptions(tool_iter[u])
                                    \ Descriptions(embedded_tools[u])) =>
                            InsertedIds(t, d) \cap InsertedIds(u, d) = {}
            /\ \A p \in Range(embedded_tools[t]) :
                  In(p.page_content, mad_hatter_tools_descriptions[t]) =>
                      ~In(p.id, points_to_be_deleted[t])

\* two overlapping passes over a registry with one tool per description have
\* both returned, and the collection holds two points for one description
C15_Witness ==
    /\ \A t \in Threads : pc[t] = "returned"
    /\ \A t \in Threads :
          Cardinality(ActiveDescriptions(tool_iter[t])) = Len(tool_iter[t])
    /\ \E d \in ActiveDescriptions(tools) :
          /\ \A t \in Threads : InsertedIds(t, d) # {}
          /\ Cardinality(IdsOf(procedural, d)) = 2

\* C16: the callback is registered before the startup call enters
\* embed_tools; once it is registered every sync that ends enters a pass,
\* and a sync that ends before has the startup pass still to come; and every
\* pass iterates the registry as it is when the pass reads it.
C16_TriggerWiring ==
    [][\A t \in Threads :
          /\ (pc[t] # "fetch" /\ pc'[t] = "fetch") => callback = "embed_tools"
          /\ (pc[t] = "notify" /\ pc'[t] # "notify") =>
                (pc'[t] = "fetch" \/ boot = "line55")
          /\ (pc[t] = "fetch" /\ pc'[t] = "loop") => tool_iter'[t] = tools]_vars

\* after startup, a sync on another thread has ended and its pass iterates
\* the registry that sync produced
C16_Witness ==
    /\ boot = "line58"
    /\ callback = "embed_tools"
    /\ syncs = 1
    /\ pc[2] = "loop"
    /\ tool_iter[2] = tools
    /\ tools # << >>
    /\ calls[Main] # << >>

\* C17: the insert calls of a pass are, in order, one call for each tool the
\* loop has visited whose description the snapshot lacks; each successful
\* call stored one point whose text is the description of that tool, with
\* source "tool" and the name and docstring of that tool, and that tool is
\* in the registry.
C17_InsertPayload ==
    \A t \in Threads :
        pc[t] \in {"loop", "delete", "returned", "raised"} =>
            LET adds == SelectSeq(calls[t], LAMBDA c : c.op = "add_texts")
                n == IF adds # << >> /\ ~adds[Len(adds)].ok
                     THEN idx[t] + 1 ELSE idx[t]
                missing == SelectSeq(SubSeq(tool_iter[t], 1, n),
                              LAMBDA tl : tl.description
                                            \notin Descriptions(embedded_tools[t]))
            IN /\ [k \in DOMAIN adds |-> adds[k].tool] = missing
               /\ \A k \in DOMAIN adds :
                     adds[k].ok =>
                        /\ adds[k].tool \in Range(tools)
                        /\ { p \in Range(procedural) : p.id = adds[k].id } =
                              { [id |-> adds[k].id,
                                 page_content |-> adds[k].tool.description,
                                 source |-> "tool",
                                 name |-> adds[k].tool.name,
                                 docstring |-> adds[k].tool.docstring] }

\* a pass inserted three tools, two of them with one description, in the
\* order of the registry
C17_Witness ==
    /\ pc[Main] = "returned"
    /\ Len(tool_iter[Main]) = 4
    /\ Len(calls[Main]) = 4
    /\ calls[Main][2].op = "add_texts" /\ calls[Main][2].tool.name = "n1"
    /\ calls[Main][3].op = "add_texts" /\ calls[Main][3].tool.name = "n2"
    /\ calls[Main][4].op = "add_texts" /\ calls[Main][4].tool.name = "n4"

\* C18: no step of a pass changes mad_hatter.tools.
C18_RegistryReadOnly ==
    [][\A t \in Threads :
          (InFlight(t) /\ (pc'[t] # pc[t] \/ idx'[t] # idx[t])) =>
              tools' = tools]_vars

\* a pass that fetched, inserted, skipped and deleted has returned, and the
\* registry is the one it iterated
C18_Witness ==
    /\ pc[Main] = "returned"
    /\ tools = tool_iter[Main]
    /\ Len(tools) >= 2
    /\ Cardinality(CallsOf(Main, "add_texts")) = 1
    /\ Cardinality(CallsOf(Main, "delete")) = 1

\* C19 (as claimed): the active descriptions the delete step uses are the
\* descriptions of the tools the insert step iterated.
C19_SingleRegistrySnapshot ==
    \A t \in Threads :
        pc[t] \in {"delete", "returned"} =>
            Range(mad_hatter_tools_descriptions[t]) = ActiveDescriptions(tool_iter[t])
====
